---- MODULE Spec2Model ----
(***************************************************************************)
(* Model of server.js: the 3D-printer backend.                             *)
(*                                                                         *)
(*   POST /api/dimensions            decode an uploaded mesh, report its   *)
(*                                   bounding box, retain it in the global *)
(*                                   uploadedFile slot, arm a 30 minute    *)
(*                                   expiry timer                          *)
(*   POST /api/submit-configuration  validate a print configuration, stage *)
(*                                   the retained mesh in a temp file, run *)
(*                                   the external slicer, read its G-code  *)
(*                                                                         *)
(* Numbers are fixed point: one unit is a thousandth (0.2 is 200).  Time   *)
(* is in milliseconds, as Date.now() and setTimeout count it.              *)
(***************************************************************************)
EXTENDS Integers, Sequences, FiniteSets, TLC

VARIABLES
    hasPrusaSlicer,   \* server.js:38, fixed at startup
    uploadedFile,     \* server.js:26, <<>> is null, <<f>> holds the record f
    now,              \* the wall clock, Date.now()
    timers,           \* pending setTimeout callbacks of server.js:174, in firing order
    jobs,             \* submit requests suspended at the await of server.js:405
    fs,               \* the temp directory: path -> content of the files that exist
    writtenAt,        \* when uploadedFile was last stored (history, not in the code)
    used,             \* how many requests have counted against MaxRequests
    resp,             \* what the step just taken did: the response sent and its effects
    call              \* a function called on its own: its name, its input, its result

vars == <<hasPrusaSlicer, uploadedFile, now, timers, jobs, fs, writtenAt, used, resp, call>>

(***************************************************************************)
(* Bounds of the model.                                                    *)
(***************************************************************************)
MaxTicks == 2      \* the clock advances at most this many times
MaxTriangles == 2  \* a binary STL called on its own holds at most this many triangles
MaxLines == 2      \* a G-code text parsed on its own has at most this many lines
MaxRequests == 3   \* at most this many requests store an upload, stage a job or
                   \* meet a failing write or deletion, in a behaviour
TickMs == 900000   \* Tick advances the clock by this many milliseconds

(***************************************************************************)
(* JavaScript numbers.  kind is "fin" (a finite number, v thousandths),    *)
(* "nan", "pinf" or "ninf".                                                *)
(***************************************************************************)
Fin(v) == [kind |-> "fin", v |-> v]
NaN == [kind |-> "nan", v |-> 0]
PInf == [kind |-> "pinf", v |-> 0]
NInf == [kind |-> "ninf", v |-> 0]

\* a < b on numbers: false as soon as one side is NaN
NumLt(a, b) ==
    IF a.kind = "nan" \/ b.kind = "nan" THEN FALSE
    ELSE IF a.kind = "ninf" THEN b.kind # "ninf"
    ELSE IF a.kind = "pinf" THEN FALSE
    ELSE IF b.kind = "pinf" THEN TRUE
    ELSE IF b.kind = "ninf" THEN FALSE
    ELSE a.v < b.v

\* Math.min(a, b)
MathMin(a, b) ==
    IF a.kind = "nan" \/ b.kind = "nan" THEN NaN
    ELSE IF NumLt(b, a) THEN b ELSE a

\* Math.max(a, b)
MathMax(a, b) ==
    IF a.kind = "nan" \/ b.kind = "nan" THEN NaN
    ELSE IF NumLt(a, b) THEN b ELSE a

\* a <= b on numbers
NumLe(a, b) == NumLt(a, b) \/ (a.kind # "nan" /\ a = b)

\* a * 0.5, exact on the even thousandths the model draws
Half(a) == IF a.kind = "fin" THEN Fin(a.v \div 2) ELSE a

\* a - b
NumSub(a, b) ==
    IF a.kind = "nan" \/ b.kind = "nan" THEN NaN
    ELSE IF a.kind = "fin" /\ b.kind = "fin" THEN Fin(a.v - b.v)
    ELSE IF a.kind = b.kind THEN NaN
    ELSE IF a.kind = "pinf" \/ b.kind = "ninf" THEN PInf
    ELSE NInf

(***************************************************************************)
(* Text.  A line is the sequence of its whitespace-separated tokens, as    *)
(* line.trim().split(/\s+/) yields them; a text is a sequence of lines.    *)
(***************************************************************************)

\* String.prototype.toLowerCase on the words of the model
ToLowerCase(s) ==
    CASE s = "STL" -> "stl"
      [] s = "Stl" -> "stl"
      [] s = "OBJ" -> "obj"
      [] s = "SOLID" -> "solid"
      [] s = "FACET" -> "facet"
      [] s = "VERTEX" -> "vertex"
      [] s = "V" -> "v"
      [] s = "NAN" -> "nan"
      [] OTHER -> s

\* Number(token) on the words of the model
ToNumber(s) ==
    CASE s = "0" -> Fin(0)
      [] s = "1" -> Fin(1000)
      [] s = "2" -> Fin(2000)
      [] s = "3" -> Fin(3000)
      [] s = "-1" -> Fin(-1000)
      [] s = "0.5" -> Fin(500)
      [] OTHER -> NaN

\* parts.slice(1).map(Number), the first three of them
Coords(parts) == <<ToNumber(parts[2]), ToNumber(parts[3]), ToNumber(parts[4])>>

\* w.includes(sub) on the lower-case words of the model
WordIncludes(w, sub) ==
    \/ w = sub
    \/ sub = "solid" /\ w = "endsolid"
    \/ sub = "facet" /\ w = "endfacet"

\* text.toLowerCase().includes(word)
TextIncludes(lines, word) ==
    \E i \in 1..Len(lines) : \E k \in 1..Len(lines[i]) :
        WordIncludes(ToLowerCase(lines[i][k]), word)

\* line.trim().toLowerCase().split(/\s+/)
LowerParts(line) == [k \in 1..Len(line) |-> ToLowerCase(line[k])]

(***************************************************************************)
(* Mesh decoding.  A decoder yields [ok, verts, error].                    *)
(***************************************************************************)
Decoded(verts) == [ok |-> TRUE, verts |-> verts, error |-> ""]
Thrown(msg) == [ok |-> FALSE, verts |-> <<>>, error |-> msg]

RECURSIVE OBJVerts(_, _)
\* the loop of readOBJ from line i on
OBJVerts(lines, i) ==
    IF i > Len(lines) THEN <<>>
    ELSE LET parts == lines[i]
             c == Coords(parts)
         IN  IF /\ Len(parts) >= 4
                /\ parts[1] = "v"
                /\ c[1].kind # "nan" /\ c[2].kind # "nan" /\ c[3].kind # "nan"
             THEN <<c>> \o OBJVerts(lines, i + 1)
             ELSE OBJVerts(lines, i + 1)

readOBJ(buf) ==
    LET verts == OBJVerts(buf.lines, 1)
    IN  IF Len(verts) = 0 THEN Thrown("No valid vertices in OBJ") ELSE Decoded(verts)

RECURSIVE ASCIIVerts(_, _)
\* the loop of readASCIISTL from line i on
ASCIIVerts(lines, i) ==
    IF i > Len(lines) THEN <<>>
    ELSE LET parts == LowerParts(lines[i])
         IN  IF Len(parts) = 4 /\ parts[1] = "vertex"
             THEN <<Coords(parts)>> \o ASCIIVerts(lines, i + 1)
             ELSE ASCIIVerts(lines, i + 1)

readASCIISTL(txt) == ASCIIVerts(txt, 1)

\* the floats of a binary STL: three vertices for each of count triangles
readBinarySTL(buf, count) == SubSeq(buf.floats, 1, 3 * count)

\* a dispatch that takes a buffer of 84 bytes for binary too
readSTLFrom84(buf) ==
    IF buf.length >= 84 /\ buf.length = 84 + buf.triangles * 50
    THEN Decoded(readBinarySTL(buf, buf.triangles))
    ELSE IF TextIncludes(buf.lines, "solid") /\ TextIncludes(buf.lines, "facet")
    THEN Decoded(readASCIISTL(buf.lines))
    ELSE Thrown("Not a valid STL file")

readSTL(buf) ==
    IF buf.length > 84 /\ buf.length = 84 + buf.triangles * 50
    THEN Decoded(readBinarySTL(buf, buf.triangles))
    ELSE IF TextIncludes(buf.lines, "solid") /\ TextIncludes(buf.lines, "facet")
    THEN Decoded(readASCIISTL(buf.lines))
    ELSE Thrown("Not a valid STL file")

RECURSIVE Extent(_, _, _, _, _)
\* the running min and max of getSize over axis a, from vertex i on
Extent(verts, a, i, lo, hi) ==
    IF i > Len(verts) THEN NumSub(hi, lo)
    ELSE Extent(verts, a, i + 1, MathMin(lo, verts[i][a]), MathMax(hi, verts[i][a]))

\* getSize: [ok, size, error]
getSize(verts) ==
    IF Len(verts) = 0
    THEN [ok |-> FALSE, error |-> "No vertices found",
          size |-> [x |-> NaN, y |-> NaN, z |-> NaN, vertexCount |-> 0]]
    ELSE [ok |-> TRUE, error |-> "",
          size |-> [x |-> Extent(verts, 1, 1, PInf, NInf),
                    y |-> Extent(verts, 2, 1, PInf, NInf),
                    z |-> Extent(verts, 3, 1, PInf, NInf),
                    vertexCount |-> Len(verts)]]

(***************************************************************************)
(* The uploads the model draws from.  A buffer is named; its bytes are     *)
(* [length, triangles, floats, lines]: the byte length, the little-endian  *)
(* uint32 at offset 80, the vertices the bytes hold when read as binary    *)
(* STL triangles, and the text they decode to as UTF-8.                    *)
(***************************************************************************)
V(x, y, z) == <<Fin(x * 1000), Fin(y * 1000), Fin(z * 1000)>>

BinaryTriangle ==
    [length |-> 134, triangles |-> 1,
     floats |-> <<V(0, 0, 0), V(1, 0, 0), V(0, 2, 0)>>,
     lines |-> <<>>]

AsciiTriangle ==
    [length |-> 140, triangles |-> 7,
     floats |-> <<>>,
     lines |-> << <<"solid", "part">>,
                  <<"facet", "normal", "0", "0", "1">>,
                  <<"VERTEX", "0", "0", "0">>,
                  <<"vertex", "3", "0", "0">>,
                  <<"vertex", "0", "1", "-1">>,
                  <<"endfacet">>,
                  <<"endsolid", "part">> >>]

AsciiWords ==
    [length |-> 120, triangles |-> 0,
     floats |-> <<>>,
     lines |-> << <<"solid", "part">>,
                  <<"facet", "normal", "0", "0", "1">>,
                  <<"vertex", "0", "0", "0">>,
                  <<"vertex", "a", "b", "c">>,
                  <<"vertex", "1", "x", "2">>,
                  <<"endfacet">>,
                  <<"endsolid", "part">> >>]

AsciiNoVertex ==
    [length |-> 60, triangles |-> 0,
     floats |-> <<>>,
     lines |-> << <<"solid", "part">>,
                  <<"facet", "normal", "0", "0", "1">>,
                  <<"vertex", "1", "2">>,
                  <<"endfacet">> >>]

ObjMesh ==
    [length |-> 40, triangles |-> 0,
     floats |-> <<>>,
     lines |-> << <<"v", "0", "0", "0">>,
                  <<"v", "1", "2", "3">>,
                  <<"v", "x", "2", "3">>,
                  <<"V", "2", "2", "3">>,
                  <<>>,
                  <<"f", "1", "2", "3">> >>]

Junk ==
    [length |-> 10, triangles |-> 0,
     floats |-> <<>>,
     lines |-> << <<"hello">> >>]

EmptyBuffer == [length |-> 0, triangles |-> 0, floats |-> <<>>, lines |-> <<>>]

\* the bytes of the buffer named buf
Bytes(buf) ==
    CASE buf = "BinaryTriangle" -> BinaryTriangle
      [] buf = "AsciiTriangle" -> AsciiTriangle
      [] buf = "AsciiNoVertex" -> AsciiNoVertex
      [] buf = "AsciiWords" -> AsciiWords
      [] buf = "ObjMesh" -> ObjMesh
      [] buf = "Junk" -> Junk
      [] OTHER -> EmptyBuffer

\* req.file of a dimensions request; present is FALSE when no file came with it
Upload(name, buf) == [present |-> TRUE, originalname |-> name, buffer |-> buf]
NoUpload == [present |-> FALSE, originalname |-> <<>>, buffer |-> "EmptyBuffer"]

\* uploads that decode
Meshes ==
    { Upload(<<"a", "stl">>, "BinaryTriangle"),
      Upload(<<"b", "OBJ">>, "ObjMesh") }

Uploads ==
    Meshes \cup
    { Upload(<<"a", "stl">>, "AsciiTriangle"),
      Upload(<<"a", "stl">>, "AsciiWords"),
      Upload(<<"a", "STL">>, "AsciiNoVertex"),
      Upload(<<"a", "stl">>, "Junk"),
      Upload(<<"b", "obj">>, "Junk"),
      Upload(<<"c", "txt">>, "ObjMesh"),
      Upload(<<"a", "stl">>, "EmptyBuffer"),
      NoUpload }

(***************************************************************************)
(* POST /api/dimensions                                                    *)
(***************************************************************************)
TTL == 30 * 60 * 1000

\* originalname.split('.').pop().toLowerCase()
Extension(name) == ToLowerCase(name[Len(name)])

NoSize == [x |-> NaN, y |-> NaN, z |-> NaN, vertexCount |-> 0]

DimensionsReply(status, error, size, stored, ext) ==
    [status |-> status, error |-> error, size |-> size, stored |-> stored, ext |-> ext]

\* a handler that stores whatever has an accepted extension and bytes, before it
\* decodes them
DimensionsResultStoresFirst(file) ==
    IF ~file.present
    THEN DimensionsReply(400, "No file uploaded", NoSize, FALSE, "")
    ELSE LET ext == Extension(file.originalname) IN
    IF ext \notin {"stl", "obj"}
    THEN DimensionsReply(400, "Only STL and OBJ supported", NoSize, FALSE, ext)
    ELSE LET file_buffer == Bytes(file.buffer) IN
    IF file_buffer.length = 0
    THEN DimensionsReply(400, "File is empty or corrupted", NoSize, FALSE, ext)
    ELSE LET dec == IF ext = "stl" THEN readSTL(file_buffer) ELSE readOBJ(file_buffer) IN
    IF ~dec.ok
    THEN DimensionsReply(500, dec.error, NoSize, TRUE, ext)
    ELSE LET got == getSize(dec.verts) IN
    IF ~got.ok
    THEN DimensionsReply(500, got.error, NoSize, TRUE, ext)
    ELSE DimensionsReply(200, "", got.size, TRUE, ext)

\* the handler up to its response: the status and body it sends, and whether
\* it reached the store of server.js:168
DimensionsResult(file) ==
    IF ~file.present
    THEN DimensionsReply(400, "No file uploaded", NoSize, FALSE, "")
    ELSE LET ext == Extension(file.originalname) IN
    IF ext \notin {"stl", "obj"}
    THEN DimensionsReply(400, "Only STL and OBJ supported", NoSize, FALSE, ext)
    ELSE LET file_buffer == Bytes(file.buffer) IN
    IF file_buffer.length = 0
    THEN DimensionsReply(400, "File is empty or corrupted", NoSize, FALSE, ext)
    ELSE LET dec == IF ext = "stl" THEN readSTL(file_buffer) ELSE readOBJ(file_buffer) IN
    IF ~dec.ok
    THEN DimensionsReply(500, dec.error, NoSize, FALSE, ext)
    ELSE LET got == getSize(dec.verts) IN
    IF ~got.ok
    THEN DimensionsReply(500, got.error, NoSize, FALSE, ext)
    ELSE DimensionsReply(200, "", got.size, TRUE, ext)

(***************************************************************************)
(* JavaScript values of a request body: [t, n, s, b] with t the type.      *)
(***************************************************************************)
Undefined == [t |-> "undefined", n |-> NaN, s |-> "", b |-> FALSE]
JSNull == [t |-> "null", n |-> NaN, s |-> "", b |-> FALSE]
Num(v) == [t |-> "number", n |-> Fin(v), s |-> "", b |-> FALSE]
Str(s) == [t |-> "string", n |-> NaN, s |-> s, b |-> FALSE]
Bool(b) == [t |-> "boolean", n |-> NaN, s |-> "", b |-> b]

\* Number(s) on the strings of the model: the numerals, and "" which is 0
StringToNumber(s) ==
    CASE s = "" -> Fin(0)
      [] s = "0.4" -> Fin(400)
      [] s = "50" -> Fin(50000)
      [] OTHER -> ToNumber(s)

\* ToNumber(v), the conversion the comparisons v < c and v > c apply
ValueToNumber(v) ==
    CASE v.t = "number" -> v.n
      [] v.t = "null" -> Fin(0)
      [] v.t = "boolean" -> IF v.b THEN Fin(1000) ELSE Fin(0)
      [] v.t = "string" -> StringToNumber(v.s)
      [] OTHER -> NaN

\* !v
Falsy(v) ==
    \/ v.t \in {"undefined", "null"}
    \/ v.t = "string" /\ v.s = ""
    \/ v.t = "boolean" /\ ~v.b
    \/ v.t = "number" /\ (v.n.kind = "nan" \/ (v.n.kind = "fin" /\ v.n.v = 0))

\* parseFloat(v): the longest numeric prefix of String(v)
parseFloat(v) ==
    CASE v.t = "number" -> v.n
      [] v.t = "string" ->
            (CASE v.s = "0.4" -> Fin(400)
               [] v.s = "50" -> Fin(50000)
               [] v.s = "5mm" -> Fin(5000)
               [] v.s = "" -> NaN
               [] OTHER -> ToNumber(v.s))
      [] OTHER -> NaN

\* the integer a finite number truncates to, toward zero
Trunc(v) == IF v >= 0 THEN (v \div 1000) * 1000 ELSE 0 - (((0 - v) \div 1000) * 1000)

\* parseInt(v): the longest integer prefix of String(v)
parseInt(v) ==
    LET f == parseFloat(v)
    IN  IF f.kind = "fin" THEN Fin(Trunc(f.v)) ELSE NaN

\* Boolean(v)
ToBoolean(v) == ~Falsy(v)

(***************************************************************************)
(* The request bodies the model draws from.                                *)
(***************************************************************************)
Body(unit, material, materialType, nozzle, fill, support) ==
    [designUnit |-> unit, material |-> material, materialType |-> materialType,
     customMaterials |-> Undefined, nozzleSize |-> nozzle, fillDensity |-> fill,
     supportMaterial |-> support]

GoodBody == Body(Str("mm"), Str("PLA"), Str("PLA+"), Num(400), Num(20000), Bool(FALSE))
EmptyBody == Body(Undefined, Undefined, Undefined, Undefined, Undefined, Undefined)

Bodies ==
    { GoodBody,
      Body(Str("mm"), Undefined, Str("PLA+"), Num(400), Num(20000), Bool(FALSE)),
      Body(Str("mm"), Str("PLA"), Str("PLA+"), Num(1500), Num(20000), Bool(FALSE)),
      Body(Str("mm"), Str("PLA"), Str("PLA+"), Num(100), Num(20000), Bool(FALSE)),
      Body(Str("mm"), Str("PLA"), Str("PLA+"), Num(400), Num(-1000), Bool(FALSE)),
      Body(Str("mm"), Str("PLA"), Str("PLA+"), Num(400), Num(101000), Bool(FALSE)),
      Body(Str("mm"), Str("constructor"), Str("PLA+"), Num(400), Num(20000), Bool(FALSE)),
      EmptyBody }

\* bodies whose nozzleSize or fillDensity is not a number
LooseBodies ==
    { GoodBody,
      Body(Str("mm"), Str("PLA"), Str("PLA+"), Str("5mm"), Num(20000), Bool(FALSE)),
      Body(Str("mm"), Str("PLA"), Str("PLA+"), Str("abc"), Num(20000), Bool(TRUE)),
      Body(Str("mm"), Str("PLA"), Str("PLA+"), JSNull, Num(20000), Bool(FALSE)),
      Body(Str("mm"), Str("PLA"), Str("PLA+"), Num(400), JSNull, Bool(FALSE)),
      Body(Str("mm"), Str("PLA"), Str("PLA+"), Num(400), Str(""), Bool(FALSE)),
      Body(Str("mm"), Str("PLA"), Str("PLA+"), Num(400), Str("abc"), Bool(FALSE)) }

(***************************************************************************)
(* POST /api/submit-configuration: the checks before any file is written.  *)
(***************************************************************************)
Reject(status, error) == [pass |-> FALSE, status |-> status, error |-> error]
Pass == [pass |-> TRUE, status |-> 0, error |-> ""]

\* server.js:351
MissingRequired(body) ==
    \/ Falsy(body.material)
    \/ Falsy(body.designUnit)
    \/ body.nozzleSize.t = "undefined"
    \/ body.fillDensity.t = "undefined"
    \/ Falsy(body.materialType)

\* the nozzle check without its upper bound
NozzleBelowRange(body) == NumLt(ValueToNumber(body.nozzleSize), Fin(200))

\* server.js:360
NozzleOutOfRange(body) ==
    \/ NumLt(ValueToNumber(body.nozzleSize), Fin(200))
    \/ NumLt(Fin(1000), ValueToNumber(body.nozzleSize))

\* server.js:366
FillOutOfRange(body) ==
    \/ NumLt(ValueToNumber(body.fillDensity), Fin(0))
    \/ NumLt(Fin(100000), ValueToNumber(body.fillDensity))

\* the checks with the mesh looked for before the engine
PrecheckMeshFirst(body, slot, slicer) ==
    IF slot = <<>>
    THEN Reject(400, "No 3D model file found")
    ELSE IF ~slicer
    THEN Reject(503, "PrusaSlicer is not available on this server")
    ELSE IF MissingRequired(body)
    THEN Reject(400, "Missing required fields")
    ELSE IF NozzleOutOfRange(body)
    THEN Reject(400, "Nozzle size must be between 0.2 and 1.0 mm")
    ELSE IF FillOutOfRange(body)
    THEN Reject(400, "Fill density must be between 0 and 100%")
    ELSE Pass

\* server.js:326-370, in the order the handler checks
Precheck(body, slot, slicer) ==
    IF ~slicer
    THEN Reject(503, "PrusaSlicer is not available on this server")
    ELSE IF slot = <<>>
    THEN Reject(400, "No 3D model file found")
    ELSE IF MissingRequired(body)
    THEN Reject(400, "Missing required fields")
    ELSE IF NozzleOutOfRange(body)
    THEN Reject(400, "Nozzle size must be between 0.2 and 1.0 mm")
    ELSE IF FillOutOfRange(body)
    THEN Reject(400, "Fill density must be between 0 and 100%")
    ELSE Pass

(***************************************************************************)
(* G-code text.  A line is the sequence of its pieces: the marker          *)
(* "; estimated printing time", "=", " " (a run of blanks or tabs), "\r"   *)
(* (a line terminator other than the line feed the text is split at: a     *)
(* carriage return, U+2028 or U+2029) or any other run of characters.  A   *)
(* printTime is the sequence of pieces of the string.                      *)
(***************************************************************************)
Marker == "; estimated printing time"
Unknown == <<"Unknown">>

\* the least k in from..Len(line) with line[k] = piece, or 0
IndexFrom(line, piece, from) ==
    LET hits == {k \in from..Len(line) : line[k] = piece}
    IN  IF hits = {} THEN 0 ELSE CHOOSE k \in hits : \A h \in hits : k <= h

\* the pieces \s matches and trim removes; the regular expression's . matches
\* every piece but the line terminator
WhiteSpace == {" ", "\r"}
LineTerminator == "\r"

RECURSIVE TrimStart(_)
TrimStart(str) ==
    IF str # <<>> /\ Head(str) \in WhiteSpace THEN TrimStart(Tail(str)) ELSE str

RECURSIVE TrimEnd(_)
TrimEnd(str) ==
    IF str # <<>> /\ str[Len(str)] \in WhiteSpace
    THEN TrimEnd(SubSeq(str, 1, Len(str) - 1))
    ELSE str

\* the longest prefix of str that . matches piece by piece
UpToTerminator(str) ==
    LET t == IndexFrom(str, LineTerminator, 1)
    IN  IF t = 0 THEN str ELSE SubSeq(str, 1, t - 1)

\* String.prototype.trim
Trim(str) == TrimEnd(TrimStart(str))

\* line.match(/; estimated printing time[^=]*=\s*(.+)/): [matched, group]
\* \s* takes the whitespace after the = and gives it back piece by piece
\* until (.+) has a piece to start at; (.+) runs up to the next line terminator
MatchPrintTime(line) ==
    LET m == IndexFrom(line, Marker, 1)
        e == IF m = 0 THEN 0 ELSE IndexFrom(line, "=", m + 1)
        rest == SubSeq(line, e + 1, Len(line))
        k == Len(rest) - Len(TrimStart(rest))
        blanks == {j \in 1..k : rest[j] # LineTerminator}
        start == IF k < Len(rest) THEN k + 1
                 ELSE IF blanks = {} THEN 0
                 ELSE CHOOSE j \in blanks : \A h \in blanks : h <= j
    IN  IF m = 0 \/ e = 0 \/ start = 0
        THEN [matched |-> FALSE, group |-> <<>>]
        ELSE [matched |-> TRUE,
              group |-> UpToTerminator(SubSeq(rest, start, Len(rest)))]

RECURSIVE ScanFirstMarkerLine(_, _)
\* a scan that ends at the first line with the marker, matched or not
ScanFirstMarkerLine(lines, i) ==
    IF i > Len(lines) THEN Unknown
    ELSE LET m == MatchPrintTime(lines[i])
         IN  IF IndexFrom(lines[i], Marker, 1) # 0
             THEN IF m.matched THEN Trim(m.group) ELSE Unknown
             ELSE ScanFirstMarkerLine(lines, i + 1)

RECURSIVE ScanPrintTime(_, _)
\* the loop of parsePrintTime from line i on
ScanPrintTime(lines, i) ==
    IF i > Len(lines) THEN Unknown
    ELSE LET m == MatchPrintTime(lines[i])
         IN  IF IndexFrom(lines[i], Marker, 1) # 0 /\ m.matched
             THEN Trim(m.group)
             ELSE ScanPrintTime(lines, i + 1)

parsePrintTime(gcodeContent) == ScanPrintTime(gcodeContent, 1)

\* what the engine may leave at its output path
GCodes ==
    { << <<"G1", " ", "X0">>, <<Marker, " ", "=", " ", "3h", " ", "12m", " ">> >>,
      << <<"G1", " ", "X0">> >> }

(***************************************************************************)
(* Temp files.  A path is [kind, ts, ext]: input_<ts>.<ext> or             *)
(* output_<ts>.gcode in os.tmpdir().                                       *)
(***************************************************************************)
NoPath == [kind |-> "none", ts |-> 0, ext |-> ""]
InputPath(ts, ext) == [kind |-> "input", ts |-> ts, ext |-> ext]
OutputPath(ts) == [kind |-> "output", ts |-> ts, ext |-> "gcode"]

\* server.js:374: the input path of a job that starts at time t
tempInputFile(t, slot) == InputPath(t, slot[1].extension)

\* server.js:375: the output path of a job that starts at time t
tempOutputFile(t) == OutputPath(t)

\* fs.existsSync(path)
existsSync(files, path) == path \in DOMAIN files

\* fs.writeFileSync(path, data)
writeFileSync(files, path, data) ==
    [q \in DOMAIN files \cup {path} |-> IF q = path THEN data ELSE files[q]]

\* fs.unlinkSync(path): [ok, fs, error]; it throws when the path does not exist
\* and when the file cannot be deleted
unlinkSync(files, path, undeletable) ==
    IF path \notin DOMAIN files
    THEN [ok |-> FALSE, fs |-> files, error |-> "ENOENT"]
    ELSE IF path \in undeletable
    THEN [ok |-> FALSE, fs |-> files, error |-> "EPERM"]
    ELSE [ok |-> TRUE, fs |-> [q \in DOMAIN files \ {path} |-> files[q]], error |-> ""]

\* a cleanup that deletes the input file and forgets the output file
CatchCleanupInputOnly(files, inPath, outPath, undeletable) ==
    LET a == IF existsSync(files, inPath)
             THEN unlinkSync(files, inPath, undeletable)
             ELSE [ok |-> TRUE, fs |-> files, error |-> ""]
    IN  [fs |-> a.fs, failed |-> ~a.ok]

\* server.js:455-460: the cleanup of the catch block; the first deletion that
\* throws ends it
CatchCleanup(files, inPath, outPath, undeletable) ==
    LET a == IF existsSync(files, inPath)
             THEN unlinkSync(files, inPath, undeletable)
             ELSE [ok |-> TRUE, fs |-> files, error |-> ""]
        b == IF ~a.ok THEN a
             ELSE IF existsSync(a.fs, outPath)
             THEN unlinkSync(a.fs, outPath, undeletable)
             ELSE a
    IN  [fs |-> b.fs, failed |-> ~b.ok]

(***************************************************************************)
(* POST /api/submit-configuration: staging, the engine, the continuation.  *)
(***************************************************************************)
EngineTimeoutMs == 120000

\* server.js:387-393
Config(body) ==
    [material |-> body.material,
     materialType |-> body.materialType,
     nozzleSize |-> parseFloat(body.nozzleSize),
     fillDensity |-> parseInt(body.fillDensity),
     supportMaterial |-> ToBoolean(body.supportMaterial)]

(***************************************************************************)
(* The command line of the engine.  An argument is [t, s, n, p]: the text  *)
(* s, the decimal text of the number n followed by s, or the path p.       *)
(***************************************************************************)
Text(s) == [t |-> "text", s |-> s, n |-> NaN, p |-> NoPath]
NumberText(n) == [t |-> "number", s |-> "", n |-> n, p |-> NoPath]
Percent(n) == [t |-> "number", s |-> "%", n |-> n, p |-> NoPath]
PathText(p) == [t |-> "path", s |-> "", n |-> NaN, p |-> p]

\* an element that is not a string: a body value put in the list as it came
Raw(v) == [t |-> v.t, s |-> "", n |-> v.n, p |-> NoPath]

\* one entry of the table of getMaterialSettings; retractionLength in thousandths
Settings(extruder, bed, firstLayerTemp, coolingFanSpeed, retractionLength, retractionSpeed) ==
    [extruder |-> Fin(extruder * 1000), bed |-> Fin(bed * 1000),
     firstLayerTemp |-> Fin(firstLayerTemp * 1000),
     coolingFanSpeed |-> Fin(coolingFanSpeed * 1000),
     retractionLength |-> Fin(retractionLength),
     retractionSpeed |-> Fin(retractionSpeed * 1000)]

\* a property the table has not got: undefined
NoSetting == [kind |-> "undefined", v |-> 0]

\* the names settings[material] finds on Object.prototype instead of in the
\* table
InheritedKeys ==
    {"constructor", "toString", "toLocaleString", "valueOf", "hasOwnProperty",
     "isPrototypeOf", "propertyIsEnumerable", "__proto__", "__defineGetter__",
     "__defineSetter__", "__lookupGetter__", "__lookupSetter__"}

\* what settings[material] is for an inherited name: a function or
\* Object.prototype, truthy, with none of the properties of a table entry
Inherited ==
    [extruder |-> NoSetting, bed |-> NoSetting, firstLayerTemp |-> NoSetting,
     coolingFanSpeed |-> NoSetting, retractionLength |-> NoSetting,
     retractionSpeed |-> NoSetting]

\* server.js:190-265
getMaterialSettings(material) ==
    LET key == IF material.t = "string" THEN material.s ELSE "" IN
    CASE key \in InheritedKeys -> Inherited
      [] key = "PLA" -> Settings(210, 60, 215, 100, 2000, 40)
      [] key = "ABS" -> Settings(250, 100, 255, 30, 1000, 40)
      [] key = "PETG" -> Settings(240, 80, 245, 50, 3000, 40)
      [] key = "TPU" -> Settings(220, 50, 225, 80, 500, 25)
      [] key = "PC" -> Settings(280, 100, 285, 40, 1500, 35)
      [] key = "ASA" -> Settings(250, 80, 255, 30, 1000, 40)
      [] key = "PEEK" -> Settings(400, 120, 405, 20, 1000, 30)
      [] key = "Nylon" -> Settings(270, 80, 275, 60, 2000, 35)
      [] OTHER -> Settings(210, 60, 215, 100, 2000, 40)

\* a rule that halves the nozzle only below 0.3
LayerHeightBelow(nozzleSize) ==
    IF NumLt(nozzleSize, Fin(300))
    THEN MathMax(Fin(100), Half(nozzleSize))
    ELSE Fin(200)

\* server.js:291-294
LayerHeight(nozzleSize) ==
    IF NumLe(nozzleSize, Fin(300))
    THEN MathMax(Fin(100), Half(nozzleSize))
    ELSE Fin(200)

\* server.js:298: config.materialType || config.material, as an argument
FilamentType(config) ==
    LET v == IF Falsy(config.materialType) THEN config.material ELSE config.materialType
    IN  IF v.t = "string" THEN Text(v.s) ELSE Raw(v)

\* args.splice(-3, 0, item)
Splice3(args, item) ==
    SubSeq(args, 1, Len(args) - 3) \o <<item>> \o SubSeq(args, Len(args) - 2, Len(args))

\* server.js:288-317: [ok, args, error]; materialSettings.extruder.toString()
\* throws when the material has no table entry of its own
generatePrusaCommand(config, inputFilePath, outputFilePath) ==
    LET materialSettings == getMaterialSettings(config.material)
        layerHeight == LayerHeight(config.nozzleSize)
        args == << Text("--nozzle-diameter"), NumberText(config.nozzleSize),
                   Text("--filament-type"), FilamentType(config),
                   Text("--temperature"), NumberText(materialSettings.extruder),
                   Text("--first-layer-temperature"),
                   NumberText(materialSettings.firstLayerTemp),
                   Text("--bed-temperature"), NumberText(materialSettings.bed),
                   Text("--retract-length"), NumberText(materialSettings.retractionLength),
                   Text("--retract-speed"), NumberText(materialSettings.retractionSpeed),
                   Text("--fill-density"), Percent(config.fillDensity),
                   Text("--layer-height"), NumberText(layerHeight),
                   Text("--bed-shape"), Text("0x0,300x0,300x300,0x300"),
                   Text("--export-gcode"),
                   Text("--output"), PathText(outputFilePath),
                   PathText(inputFilePath) >>
    IN  IF materialSettings.extruder.kind = "undefined"
        THEN [ok |-> FALSE, args |-> <<>>,
              error |-> "Cannot read properties of undefined (reading 'toString')"]
        ELSE [ok |-> TRUE, error |-> "",
              args |-> IF config.supportMaterial
                       THEN Splice3(args, Text("--support-material"))
                       ELSE args]

NoData ==
    [printTime |-> <<>>, filename |-> <<>>, nozzleSize |-> NaN, fillDensity |-> NaN,
     supportMaterial |-> FALSE]

\* server.js:433-444
processedConfig(body, printTime, slot) ==
    [printTime |-> printTime, filename |-> slot[1].filename,
     nozzleSize |-> parseFloat(body.nozzleSize),
     fillDensity |-> parseInt(body.fillDensity),
     supportMaterial |-> ToBoolean(body.supportMaterial)]

\* a request suspended at the await of server.js:405
Job(body, inPath, outPath, slot, t) ==
    [body |-> body, tempInputFile |-> inPath, tempOutputFile |-> outPath,
     startedAt |-> t, engine |-> "running",
     prusaArgs |-> generatePrusaCommand(Config(body), inPath, outPath).args,
     staged |-> slot[1].filename]

\* server.js:454-478: the catch block, entered with the error thrown
Caught(files, inPath, outPath, undeletable, message, unlinkError) ==
    LET c == CatchCleanup(files, inPath, outPath, undeletable)
    IN  [status |-> 500, error |-> message, data |-> NoData, fs |-> c.fs,
         unlinkError |-> unlinkError, cleanupFailed |-> c.failed]

\* a check that also fails the job whose engine did not exit with status 0
OutputMissingOrFailed(job, files) ==
    job.engine # "exit0" \/ ~existsSync(files, job.tempOutputFile)

\* server.js:421: the check that fails a job once its engine has returned
OutputMissing(job, files) == ~existsSync(files, job.tempOutputFile)

\* a handler that takes exit status 0 for success and reads the output if there
\* is one
ContinuationTrustsExit(job, files, slot, undeletable) ==
    IF job.engine = "exit0" /\ slot # <<>>
    THEN LET printTime == IF existsSync(files, job.tempOutputFile)
                          THEN parsePrintTime(files[job.tempOutputFile])
                          ELSE Unknown
             c == CatchCleanup(files, job.tempInputFile, job.tempOutputFile, undeletable)
         IN  [status |-> 200, error |-> "",
              data |-> processedConfig(job.body, printTime, slot), fs |-> c.fs,
              unlinkError |-> "", cleanupFailed |-> c.failed]
    ELSE Caught(files, job.tempInputFile, job.tempOutputFile, undeletable,
                "PrusaSlicer failed", "")

\* server.js:420-452: the handler from the return of the engine to its response
Continuation(job, files, slot, undeletable) ==
    LET inPath == job.tempInputFile
        outPath == job.tempOutputFile
    IN
    IF OutputMissing(job, files)
    THEN Caught(files, inPath, outPath, undeletable,
                "PrusaSlicer did not create output file", "")
    ELSE LET printTime == parsePrintTime(files[outPath])
             a == unlinkSync(files, inPath, undeletable)
         IN
    IF ~a.ok
    THEN Caught(a.fs, inPath, outPath, undeletable, a.error, a.error)
    ELSE LET b == unlinkSync(a.fs, outPath, undeletable) IN
    IF ~b.ok
    THEN Caught(b.fs, inPath, outPath, undeletable, b.error, b.error)
    ELSE IF slot = <<>>
    THEN Caught(b.fs, inPath, outPath, undeletable,
                "Cannot read properties of null", "")
    ELSE [status |-> 200, error |-> "",
          data |-> processedConfig(job.body, printTime, slot), fs |-> b.fs,
          unlinkError |-> "", cleanupFailed |-> FALSE]

(***************************************************************************)
(* What a step reports in resp.                                            *)
(***************************************************************************)
Quiet(req) ==
    [req |-> req, status |-> 0, error |-> "", size |-> NoSize, data |-> NoData,
     file |-> NoUpload, body |-> EmptyBody, staged |-> FALSE, mesh |-> <<>>,
     inPath |-> NoPath, outPath |-> NoPath, engine |-> "",
     outputExisted |-> FALSE, unlinkError |-> "", cleanupFailed |-> FALSE,
     cleared |-> FALSE, age |-> 0]

(***************************************************************************)
(* The state machine.                                                      *)
(***************************************************************************)
\* no function has been called on its own
NoCall == [fn |-> "", in |-> <<>>, out |-> <<>>]

Init ==
    /\ call = NoCall
    /\ hasPrusaSlicer \in BOOLEAN
    /\ uploadedFile = <<>>
    /\ now = 0
    /\ timers = <<>>
    /\ jobs = <<>>
    /\ fs = <<>>
    /\ writtenAt = 0
    /\ used = 0
    /\ resp = Quiet("none")

\* a dimensions handler that waits until no engine is running
DimensionsWhenIdle(file) ==
    LET r == DimensionsResult(file) IN
    /\ jobs = <<>>
    /\ r.stored => used < MaxRequests
    /\ uploadedFile' =
          IF r.stored
          THEN << [buffer |-> file.buffer, filename |-> file.originalname,
                   extension |-> r.ext] >>
          ELSE uploadedFile
    /\ timers' =
          IF r.stored
          THEN Append(timers, [due |-> now + TTL, originalname |-> file.originalname])
          ELSE timers
    /\ writtenAt' = IF r.stored THEN now ELSE writtenAt
    /\ used' = IF r.stored THEN used + 1 ELSE used
    /\ resp' = [Quiet("dimensions") EXCEPT !.status = r.status, !.error = r.error,
                                           !.size = r.size, !.file = file]
    /\ UNCHANGED <<call, hasPrusaSlicer, now, jobs, fs>>

\* app.post('/api/dimensions')
Dimensions(file) ==
    LET r == DimensionsResult(file) IN
    /\ r.stored => used < MaxRequests
    /\ uploadedFile' =
          IF r.stored
          THEN << [buffer |-> file.buffer, filename |-> file.originalname,
                   extension |-> r.ext] >>
          ELSE uploadedFile
    /\ timers' =
          IF r.stored
          THEN Append(timers, [due |-> now + TTL, originalname |-> file.originalname])
          ELSE timers
    /\ writtenAt' = IF r.stored THEN now ELSE writtenAt
    /\ used' = IF r.stored THEN used + 1 ELSE used
    /\ resp' = [Quiet("dimensions") EXCEPT !.status = r.status, !.error = r.error,
                                           !.size = r.size, !.file = file]
    /\ UNCHANGED <<call, hasPrusaSlicer, now, jobs, fs>>

\* server.js:175: does the callback of a timer clear the slot
ExpiryClears(slot, timer) == slot # <<>> /\ slot[1].filename = timer.originalname

\* the setTimeout callback of server.js:174-179
Expire ==
    /\ timers # <<>>
    /\ Head(timers).due <= now
    /\ LET hit == ExpiryClears(uploadedFile, Head(timers)) IN
       /\ uploadedFile' = IF hit THEN <<>> ELSE uploadedFile
       /\ resp' = [Quiet("expiry") EXCEPT !.cleared = hit, !.age = now - writtenAt]
    /\ timers' = Tail(timers)
    /\ UNCHANGED <<call, hasPrusaSlicer, now, jobs, fs, writtenAt, used>>

\* time passes; a timer that is due and a continuation that is ready run first
Tick ==
    /\ now \div TickMs < MaxTicks
    /\ timers # <<>> => Head(timers).due > now
    /\ \A j \in 1..Len(jobs) :
          jobs[j].engine = "running" /\ now < jobs[j].startedAt + EngineTimeoutMs
    /\ now' = now + TickMs
    /\ resp' = Quiet("none")
    /\ UNCHANGED <<call, hasPrusaSlicer, uploadedFile, timers, jobs, fs, writtenAt, used>>

\* app.post('/api/submit-configuration') up to the await of server.js:405.
\* writes is whether fs.writeFileSync succeeds; moved is whether the clock has
\* moved on to the next millisecond between the Date.now() of server.js:374
\* and the one of server.js:375.
\* A request that passes the checks counts against MaxRequests, and a clock
\* that moves between the two reads counts once more.
SubmitStart(body, writes, moved) ==
    LET pre == Precheck(body, uploadedFile, hasPrusaSlicer) IN
    IF ~pre.pass
    THEN /\ writes /\ ~moved
         /\ resp' = [Quiet("submit") EXCEPT !.status = pre.status, !.error = pre.error,
                                            !.body = body]
         /\ UNCHANGED <<call, hasPrusaSlicer, uploadedFile, now, timers, jobs, fs, writtenAt, used>>
    ELSE LET later == IF moved THEN now + 1 ELSE now
             inPath == tempInputFile(now, uploadedFile)
             outPath == tempOutputFile(later)
             prusaArgs == generatePrusaCommand(Config(body), inPath, outPath)
             Cost == IF moved THEN 2 ELSE 1
         IN
         /\ used + Cost <= MaxRequests
         /\ used' = used + Cost
         /\ now' = later
         /\ IF ~writes
            THEN LET c == Caught(fs, inPath, outPath, {}, "write failed", "") IN
                 /\ fs' = c.fs
                 /\ resp' = [Quiet("submit") EXCEPT !.status = c.status, !.error = c.error,
                                                    !.body = body,
                                                    !.staged = TRUE, !.inPath = inPath,
                                                    !.outPath = outPath]
                 /\ UNCHANGED jobs
            ELSE IF ~prusaArgs.ok
            THEN LET c == Caught(writeFileSync(fs, inPath, uploadedFile[1].buffer),
                                 inPath, outPath, {}, prusaArgs.error, "")
                 IN
                 /\ fs' = c.fs
                 /\ resp' = [Quiet("submit") EXCEPT !.status = c.status, !.error = c.error,
                                                    !.body = body,
                                                    !.staged = TRUE, !.inPath = inPath,
                                                    !.outPath = outPath]
                 /\ UNCHANGED jobs
            ELSE /\ fs' = writeFileSync(fs, inPath, uploadedFile[1].buffer)
                 /\ jobs' = Append(jobs, Job(body, inPath, outPath, uploadedFile, later))
                 /\ resp' = [Quiet("stage") EXCEPT !.body = body, !.staged = TRUE,
                                                   !.mesh = uploadedFile[1].filename,
                                                   !.inPath = inPath, !.outPath = outPath]
         /\ UNCHANGED <<call, hasPrusaSlicer, uploadedFile, timers, writtenAt>>

\* what the engine leaves at its output path: nothing, or G-code
NoOutput == <<>>

\* the files once the engine of a job has left output at its output path
EngineOutput(files, job, output) ==
    IF output = NoOutput THEN files ELSE writeFileSync(files, job.tempOutputFile, output)

\* the engine of job j exits by itself, before the timeout, with status code
EngineExit(j, code, output) ==
    /\ jobs[j].engine = "running"
    /\ now < jobs[j].startedAt + EngineTimeoutMs
    /\ jobs' = [jobs EXCEPT ![j].engine = IF code = 0 THEN "exit0" ELSE "exit1"]
    /\ fs' = EngineOutput(fs, jobs[j], output)
    /\ resp' = Quiet("none")
    /\ UNCHANGED <<call, hasPrusaSlicer, uploadedFile, now, timers, writtenAt, used>>

\* execFile kills the engine of job j when the timeout of server.js:406 has passed
EngineTimeout(j, output) ==
    /\ jobs[j].engine = "running"
    /\ now >= jobs[j].startedAt + EngineTimeoutMs
    /\ jobs' = [jobs EXCEPT ![j].engine = "killed"]
    /\ fs' = EngineOutput(fs, jobs[j], output)
    /\ resp' = Quiet("none")
    /\ UNCHANGED <<call, hasPrusaSlicer, uploadedFile, now, timers, writtenAt, used>>

\* the files whose deletion may fail while the handler of job runs on: none,
\* its input file or its output file
Undeletables(job) == {{}, {job.tempInputFile}, {job.tempOutputFile}}

\* a handler that stays suspended after it has answered
Keep(seq, j) == seq

\* jobs without its j-th element
Without(seq, j) == SubSeq(seq, 1, j - 1) \o SubSeq(seq, j + 1, Len(seq))

\* the handler of job j from the return of the await to its response.
\* undeletable are the paths whose deletion fails.
Resume(j, undeletable) ==
    /\ jobs[j].engine # "running"
    /\ undeletable # {} => used < MaxRequests
    /\ used' = IF undeletable # {} THEN used + 1 ELSE used
    /\ LET job == jobs[j]
           r == Continuation(job, fs, uploadedFile, undeletable)
       IN  /\ fs' = r.fs
           /\ resp' = [Quiet("submit") EXCEPT
                          !.status = r.status, !.error = r.error, !.data = r.data,
                          !.body = job.body, !.staged = TRUE, !.mesh = job.staged,
                          !.inPath = job.tempInputFile,
                          !.outPath = job.tempOutputFile, !.engine = job.engine,
                          !.outputExisted = existsSync(fs, job.tempOutputFile),
                          !.unlinkError = r.unlinkError,
                          !.cleanupFailed = r.cleanupFailed]
    /\ jobs' = Without(jobs, j)
    /\ UNCHANGED <<call, hasPrusaSlicer, uploadedFile, now, timers, writtenAt>>

Next ==
    \/ \E file \in Meshes : Dimensions(file)
    \/ Expire
    \/ Tick
    \/ \E body \in Bodies, writes \in BOOLEAN, moved \in BOOLEAN :
          SubmitStart(body, writes, moved)
    \/ \E j \in 1..Len(jobs), code \in {0, 1}, output \in GCodes \cup {NoOutput} :
          EngineExit(j, code, output)
    \/ \E j \in 1..Len(jobs), output \in GCodes \cup {NoOutput} : EngineTimeout(j, output)
    \/ \E j \in 1..Len(jobs) :
          \E undeletable \in Undeletables(jobs[j]) :
             Resume(j, undeletable)

Spec == Init /\ [][Next]_vars

\* the uploads alone: every upload of the model, the timers and the clock
NextUpload ==
    \/ \E file \in Uploads : Dimensions(file)
    \/ Expire
    \/ Tick

SpecUpload == Init /\ [][NextUpload]_vars

\* the bodies whose numbers are not numbers, against one retained mesh: no
\* clock, no failing write or deletion
NextBodies ==
    \/ Dimensions(Upload(<<"a", "stl">>, "BinaryTriangle"))
    \/ \E body \in LooseBodies, moved \in BOOLEAN : SubmitStart(body, TRUE, moved)
    \/ \E j \in 1..Len(jobs), output \in GCodes : EngineExit(j, 0, output)
    \/ \E j \in 1..Len(jobs) : Resume(j, {})

SpecBodies == Init /\ [][NextBodies]_vars

\* the bodies submitted while a request waits: one that passes, one that does
\* not
WaitingBodies ==
    { GoodBody,
      Body(Str("mm"), Str("PLA"), Str("PLA+"), Num(1500), Num(20000), Bool(FALSE)) }

\* requests that come while others wait for their engines: no clock, no
\* failing write or deletion
NextWaiting ==
    \/ \E file \in Meshes : Dimensions(file)
    \/ \E body \in WaitingBodies, moved \in BOOLEAN : SubmitStart(body, TRUE, moved)
    \/ \E j \in 1..Len(jobs), code \in {0, 1}, output \in GCodes \cup {NoOutput} :
          EngineExit(j, code, output)
    \/ \E j \in 1..Len(jobs) : Resume(j, {})

SpecWaiting == Init /\ [][NextWaiting]_vars

(***************************************************************************)
(* Functions called on their own.  The server stays as constructed; call   *)
(* holds the input drawn at the start and, once the function has been      *)
(* applied, its name and its result.                                       *)
(***************************************************************************)
server == <<hasPrusaSlicer, uploadedFile, now, timers, jobs, fs, writtenAt, used, resp>>

\* the server as constructed, with the engine found
Constructed ==
    /\ hasPrusaSlicer = TRUE
    /\ uploadedFile = <<>>
    /\ now = 0
    /\ timers = <<>>
    /\ jobs = <<>>
    /\ fs = <<>>
    /\ writtenAt = 0
    /\ used = 0
    /\ resp = Quiet("none")

\* the input in, not yet passed to a function
Pending(in) == [fn |-> "", in |-> in, out |-> <<>>]

\* the configurations generatePrusaCommand is called with
Configs ==
    [material : {Str("PLA"), Str("TPU"), Str("wood"), Str("constructor")},
     materialType : {Str("PLA+"), Str(""), Str("--support-material")},
     nozzleSize : {Fin(100), Fin(200), Fin(260), Fin(300), Fin(400), Fin(1000), NaN},
     fillDensity : {Fin(0), Fin(20000), NaN},
     supportMaterial : BOOLEAN]

\* the pairs of paths generatePrusaCommand is called with
PathPairs ==
    { <<InputPath(0, "stl"), OutputPath(0)>>,
      <<InputPath(0, "stl"), OutputPath(1)>>,
      <<InputPath(TickMs, "obj"), OutputPath(TickMs)>> }

InitCommand ==
    /\ Constructed
    /\ call \in {Pending([config |-> c, inputFilePath |-> pp[1], outputFilePath |-> pp[2]]) :
                    c \in Configs, pp \in PathPairs}

CallGeneratePrusaCommand ==
    /\ call.fn = ""
    /\ call' = [call EXCEPT
                   !.fn = "generatePrusaCommand",
                   !.out = generatePrusaCommand(call.in.config, call.in.inputFilePath,
                                                call.in.outputFilePath)]
    /\ UNCHANGED server

SpecCommand == InitCommand /\ [][CallGeneratePrusaCommand]_vars

\* the texts readSTL is called with
STLTexts ==
    { <<>>,
      << <<"solid", "part">>, <<"facet", "normal", "0", "0", "1">>,
         <<"vertex", "1", "2", "3">>, <<"endfacet">> >>,
      << <<"SOLID", "part">>, <<"FACET">>, <<"VERTEX", "0", "0", "0">> >>,
      << <<"solid", "part">>, <<"vertex", "1", "2", "3">> >>,
      << <<"facet">>, <<"vertex", "1", "2", "3">> >>,
      << <<"endsolid">>, <<"endfacet">> >>,
      << <<"hello">> >> }

\* the byte lengths readSTL is called with: short of a header, a header, and
\* a header with whole triangles or one byte
STLLengths == {50, 85} \cup {84 + k * 50 : k \in 0..MaxTriangles}

\* the vertices that length bytes hold after the header, read as triangles
STLFloats(length) ==
    IF length <= 84 THEN <<>>
    ELSE [i \in 1..(3 * ((length - 84) \div 50)) |-> V(i, 2 * i, 0)]

\* the buffers readSTL is called with
STLBuffers ==
    { [length |-> l, triangles |-> c, floats |-> STLFloats(l), lines |-> t] :
         l \in STLLengths, c \in 0..MaxTriangles, t \in STLTexts }

InitSTL ==
    /\ Constructed
    /\ call \in {Pending(buf) : buf \in STLBuffers}

CallReadSTL ==
    /\ call.fn = ""
    /\ call' = [call EXCEPT !.fn = "readSTL", !.out = readSTL(call.in)]
    /\ UNCHANGED server

SpecSTL == InitSTL /\ [][CallReadSTL]_vars

\* the lines of the texts parsePrintTime is called with
GCodeLines ==
    { <<>>,
      <<"G1", " ", "X0">>,
      <<Marker, " ", "=", " ", "3h", " ", "12m", " ">>,
      <<Marker>>,
      <<Marker, " ", "(normal mode)", " ", "=", " ", "5m">>,
      <<Marker, "=", " ">>,
      <<Marker, "=", "\r">>,
      <<Marker, "=", " ", "\r">>,
      <<Marker, " ", "=", " ", "7m", "\r">>,
      <<Marker, "=", "1h", "\r", "2m">>,
      <<";", " ", Marker, " ", "=", " ", "1h", "=", "2m">>,
      <<"=", " ", Marker>> }

\* the texts parsePrintTime is called with
GCodeTexts == UNION {[1..n -> GCodeLines] : n \in 1..MaxLines}

InitPrintTime ==
    /\ Constructed
    /\ call \in {Pending(text) : text \in GCodeTexts}

CallParsePrintTime ==
    /\ call.fn = ""
    /\ call' = [call EXCEPT !.fn = "parsePrintTime", !.out = parsePrintTime(call.in)]
    /\ UNCHANGED server

SpecPrintTime == InitPrintTime /\ [][CallParsePrintTime]_vars

(***************************************************************************)
(* Claims.  resp describes the step that led to the current state: a       *)
(* response to a dimensions request ("dimensions"), a response to a submit *)
(* request ("submit"), a submit request suspended at the engine ("stage"), *)
(* an expiry callback ("expiry").                                          *)
(***************************************************************************)

\* the step was the response of a submit request whose engine had returned
Answered == resp.req = "submit" /\ resp.engine # ""

\* a deletion that was attempted on an existing file failed
DeletionFailed == resp.unlinkError = "EPERM" \/ resp.cleanupFailed

\* C1: when the response of a submit request that staged temp files is sent,
\* neither its temp input file nor its temp output file exists, whatever the
\* outcome, provided no attempted deletion failed.
C1_TempFilesGone ==
    (resp.req = "submit" /\ resp.staged /\ ~DeletionFailed)
        => ~existsSync(fs, resp.inPath) /\ ~existsSync(fs, resp.outPath)

\* C1 witness: a job that produced output and was cleaned up threw afterwards
\* (the slot had expired), and its files are gone when the 500 is sent.
C1_Witness ==
    /\ Answered
    /\ resp.outputExisted
    /\ resp.status = 500
    /\ resp.error = "Cannot read properties of null"
    /\ ~existsSync(fs, resp.inPath) /\ ~existsSync(fs, resp.outPath)

\* C2: a request whose engine was killed at the timeout never gets a success
\* response, even when a file exists at the output path.
C2_TimeoutNeverSucceeds ==
    (Answered /\ resp.engine = "killed") => resp.status # 200

\* C3: a request whose output file is absent when the engine has returned gets
\* an error response, whatever the exit status.
C3_MissingOutputFails ==
    (Answered /\ ~resp.outputExisted) => resp.status = 500

\* C3 witness: the engine exited with status 0, left no output, and the request
\* got the missing-output error.
C3_Witness ==
    /\ Answered
    /\ resp.engine = "exit0"
    /\ ~resp.outputExisted
    /\ resp.status = 500
    /\ resp.error = "PrusaSlicer did not create output file"

\* C4: with the output file present, a job answers the same (status and data,
\* printTime included) whether its engine exited with status 0 or not; and a
\* job whose engine exited non-zero with output succeeds unless something
\* else fails.
C4_ExitStatusIrrelevant ==
    /\ \A j \in 1..Len(jobs) : \A u \in Undeletables(jobs[j]) :
          existsSync(fs, jobs[j].tempOutputFile) =>
             LET zero == Continuation([jobs[j] EXCEPT !.engine = "exit0"],
                                      fs, uploadedFile, u)
                 nonzero == Continuation([jobs[j] EXCEPT !.engine = "exit1"],
                                         fs, uploadedFile, u)
             IN  zero.status = nonzero.status /\ zero.data = nonzero.data
    /\ (/\ Answered
        /\ resp.engine = "exit1"
        /\ resp.outputExisted
        /\ resp.unlinkError = ""
        /\ uploadedFile # <<>>) => resp.status = 200

\* C4 witness: the engine exited non-zero, its output was there, and the
\* request succeeded with the print time of that output.
C4_Witness ==
    /\ Answered
    /\ resp.engine = "exit1"
    /\ resp.outputExisted
    /\ resp.status = 200
    /\ resp.data.printTime = <<"3h", " ", "12m">>

\* the step was taken by a submit request: it answered or it suspended
SubmitStep == resp'.req \in {"submit", "stage"} /\ resp'.engine = ""

\* C5: with the engine binary not found at startup, a submit request gets the
\* 503 and changes no file, no job and not the slot.
C5_Unavailable503 ==
    [][(SubmitStep /\ ~hasPrusaSlicer)
          => /\ resp'.req = "submit"
             /\ resp'.status = 503
             /\ UNCHANGED <<fs, jobs, uploadedFile>>]_vars

\* C5 witness: a valid configuration, a retained mesh, no engine: 503.
C5_Witness ==
    /\ ~hasPrusaSlicer
    /\ uploadedFile # <<>>
    /\ resp.req = "submit"
    /\ resp.body = GoodBody
    /\ resp.status = 503

\* the preconditions of a submit request as the specification lists them
IsNumber(v) == v.t = "number" /\ v.n.kind = "fin"
FailsPrecondition(body, slot) ==
    \/ slot = <<>>
    \/ \E f \in {body.material, body.materialType, body.designUnit,
                 body.nozzleSize, body.fillDensity} : f.t = "undefined"
    \/ IsNumber(body.nozzleSize) /\ (body.nozzleSize.n.v < 200 \/ body.nozzleSize.n.v > 1000)
    \/ IsNumber(body.fillDensity) /\ (body.fillDensity.n.v < 0 \/ body.fillDensity.n.v > 100000)

\* C6 as claimed: a submit request that fails a precondition is rejected with
\* a client error and without a side effect.
C6_RejectedWithClientError ==
    [][(SubmitStep /\ FailsPrecondition(resp'.body, uploadedFile))
          => /\ resp'.req = "submit"
             /\ resp'.status \in 400..499
             /\ UNCHANGED <<fs, jobs, uploadedFile>>]_vars

\* C6 amended: such a request is rejected without a side effect, with the 400
\* when the engine is available and with the 503 when it is not.
C6_RejectedBeforeSideEffect ==
    [][(SubmitStep /\ FailsPrecondition(resp'.body, uploadedFile))
          => /\ resp'.req = "submit"
             /\ resp'.status = IF hasPrusaSlicer THEN 400 ELSE 503
             /\ UNCHANGED <<fs, jobs, uploadedFile>>]_vars

\* C6 witness: nozzleSize 1.5 is rejected with the 400 while another job is
\* suspended at the engine and its input file is on disk.
C6_Witness ==
    /\ resp.req = "submit"
    /\ resp.body.nozzleSize = Num(1500)
    /\ resp.status = 400
    /\ resp.error = "Nozzle size must be between 0.2 and 1.0 mm"
    /\ Len(jobs) = 1
    /\ DOMAIN fs = {jobs[1].tempInputFile}

\* C7: an expiry never clears a slot that was stored less than the
\* time-to-live ago.
C7_NoEarlyExpiry ==
    (resp.req = "expiry" /\ resp.cleared) => resp.age >= TTL

\* C8: two jobs in flight never share a temp input path or a temp output path.
C8_DistinctTempPaths ==
    \A i, j \in 1..Len(jobs) :
        i # j => /\ jobs[i].tempInputFile # jobs[j].tempInputFile
                 /\ jobs[i].tempOutputFile # jobs[j].tempOutputFile

\* C9: a failed deletion does not change the outcome: the job whose output was
\* produced and read succeeds, the job that failed reports its own error.
C9_DeletionFailureSuppressed ==
    (Answered /\ DeletionFailed) =>
        /\ (resp.outputExisted /\ uploadedFile # <<>>) => resp.status = 200
        /\ ~resp.outputExisted =>
              (resp.status = 500 /\ resp.error = "PrusaSlicer did not create output file")

\* C10: a dimensions request that succeeds stores its bytes, filename and
\* extension in the slot and arms one timer; one that fails changes neither
\* the slot nor the timers.
C10_StoredIffSucceeded ==
    [][resp'.req = "dimensions" =>
          IF resp'.status = 200
          THEN /\ uploadedFile' =
                     << [buffer |-> resp'.file.buffer,
                         filename |-> resp'.file.originalname,
                         extension |-> Extension(resp'.file.originalname)] >>
               /\ uploadedFile'[1].extension \in {"stl", "obj"}
               /\ Len(timers') = Len(timers) + 1
          ELSE UNCHANGED <<uploadedFile, timers>>]_vars

\* C10 witness: an STL with no vertex line is refused with the 500 and the
\* mesh stored before it is still in the slot.
C10_Witness ==
    /\ resp.req = "dimensions"
    /\ resp.file = Upload(<<"a", "STL">>, "AsciiNoVertex")
    /\ resp.status = 500
    /\ resp.error = "No vertices found"
    /\ uploadedFile # <<>>
    /\ uploadedFile[1].buffer = "ObjMesh"
    /\ Len(timers) = 1

\* generatePrusaCommand has been called and has returned a list
Built == call.fn = "generatePrusaCommand" /\ call.out.ok

\* how many elements of args equal item, among the positions in at
Count(args, item, at) == Cardinality({i \in at : args[i] = item})

\* the list ends with --output, the output path, the input path
EndsWithTriple ==
    LET args == call.out.args
        n == Len(args)
    IN  /\ n >= 4
        /\ args[n - 2] = Text("--output")
        /\ args[n - 1] = PathText(call.in.outputFilePath)
        /\ args[n] = PathText(call.in.inputFilePath)

\* C11: for every configuration and every pair of paths generatePrusaCommand
\* builds a list; the list ends with --output, the output path and the input
\* path; with supportMaterial the element before them is --support-material,
\* which occurs exactly once; without it --support-material is absent and the
\* element before them is --export-gcode.
C11_ListForEveryConfiguration ==
    call.fn = "generatePrusaCommand" =>
        /\ call.out.ok
        /\ LET args == call.out.args
               n == Len(args)
               flag == Text("--support-material")
           IN  /\ EndsWithTriple
               /\ IF call.in.config.supportMaterial
                  THEN args[n - 3] = flag /\ Count(args, flag, 1..n) = 1
                  ELSE /\ args[n - 3] = Text("--export-gcode")
                       /\ Count(args, flag, 1..n) = 0

\* the value of --layer-height
LayerHeightArgument == call.out.args[18]

\* C15: the layer height is 0.2 for a nozzle above 0.3 and max(0.1, half the
\* nozzle) for a nozzle of at most 0.3: 0.2 gives 0.1, 0.3 gives 0.15, 0.4
\* gives 0.2; for a nozzle in [0.2, 1.0] it is in [0.1, 0.2].
C15_LayerHeightRule ==
    (Built /\ call.in.config.nozzleSize.kind = "fin") =>
        LET v == call.in.config.nozzleSize.v
            h == LayerHeightArgument
        IN  /\ call.out.args[17] = Text("--layer-height")
            /\ h.t = "number" /\ h.s = "" /\ h.n.kind = "fin"
            /\ v > 300 => h.n.v = 200
            /\ v <= 300 => h.n.v = (IF v \div 2 > 100 THEN v \div 2 ELSE 100)
            /\ v = 200 => h.n.v = 100
            /\ v = 300 => h.n.v = 150
            /\ v = 400 => h.n.v = 200
            /\ (v >= 200 /\ v <= 1000) => (h.n.v >= 100 /\ h.n.v <= 200)

\* C15 witness: a nozzle of 0.3 gets a layer height of 0.15.
C15_Witness ==
    /\ Built
    /\ call.in.config.nozzleSize = Fin(300)
    /\ LayerHeightArgument = NumberText(Fin(150))

\* C12: a dimensions request that succeeds reports extents that are numbers,
\* none below 0, and a vertex count above 0, whatever the format and the
\* tokens of the vertex lines.
C12_ExtentsAreNumbers ==
    (resp.req = "dimensions" /\ resp.status = 200) =>
        /\ \A e \in {resp.size.x, resp.size.y, resp.size.z} : e.kind = "fin" /\ e.v >= 0
        /\ resp.size.vertexCount > 0

\* C13: readSTL decodes a buffer as binary STL exactly when its length exceeds
\* 84 and equals 84 + count * 50 for the count at offset 80; otherwise as ASCII
\* STL when its text contains solid and facet in any case; otherwise it fails
\* with 'Not a valid STL file' and returns no points.
C13_STLDispatch ==
    call.fn = "readSTL" =>
        LET buf == call.in
            binary == buf.length > 84 /\ buf.length = 84 + buf.triangles * 50
            ascii == TextIncludes(buf.lines, "solid") /\ TextIncludes(buf.lines, "facet")
        IN  IF binary
            THEN /\ call.out.ok
                 /\ Len(call.out.verts) = 3 * buf.triangles
                 /\ call.out.verts = buf.floats
            ELSE IF ascii
            THEN call.out.ok /\ call.out.verts = readASCIISTL(buf.lines)
            ELSE /\ ~call.out.ok
                 /\ call.out.error = "Not a valid STL file"
                 /\ call.out.verts = <<>>

\* C13 witness: a buffer of 134 bytes that declares two triangles falls back
\* to ASCII and yields the vertex of its text.
C13_Witness ==
    /\ call.fn = "readSTL"
    /\ call.in.length = 134
    /\ call.in.triangles = 2
    /\ call.out.ok
    /\ call.out.verts = <<V(1, 2, 3)>>

\* the line holds the marker
HasMarker(line) == \E m \in 1..Len(line) : line[m] = Marker

\* the line holds the marker, an = after it and, after that = and whitespace
\* only, a character that is not a line terminator
HasTime(line) ==
    \E m, e, p \in 1..Len(line) :
        /\ line[m] = Marker /\ m < e /\ line[e] = "=" /\ e < p
        /\ \A q \in (m + 1)..(e - 1) : line[q] # "="
        /\ line[p] # "\r"
        /\ \A q \in (e + 1)..(p - 1) : line[q] \in {" ", "\r"}

\* the text after the first = that follows the first marker of the line
AfterEquals(line) ==
    LET m == CHOOSE k \in 1..Len(line) :
                 line[k] = Marker /\ \A h \in 1..(k - 1) : line[h] # Marker
        e == CHOOSE k \in (m + 1)..Len(line) :
                 line[k] = "=" /\ \A h \in (m + 1)..(k - 1) : line[h] # "="
    IN  SubSeq(line, e + 1, Len(line))

\* the text after the first = that follows the marker, from its first
\* character that is not whitespace up to the line terminator after it
TimeText(line) ==
    LET body == TrimStart(AfterEquals(line))
        ends == {t \in 1..Len(body) : body[t] = "\r"}
    IN  IF ends = {} THEN body
        ELSE SubSeq(body, 1, (CHOOSE t \in ends : \A h \in ends : t <= h) - 1)

\* the first line of lines that satisfies Has, or 0
FirstLine(lines, Has(_)) ==
    LET hits == {i \in 1..Len(lines) : Has(lines[i])}
    IN  IF hits = {} THEN 0 ELSE CHOOSE i \in hits : \A h \in hits : i <= h

\* C14 as claimed: the first line with the marker decides: the result is the
\* trimmed text after the first = that follows the marker there, and it is
\* 'Unknown' exactly when no line holds the marker.
C14_FirstMarkerLineDecides ==
    call.fn = "parsePrintTime" =>
        LET first == FirstLine(call.in, HasMarker)
        IN  IF first = 0
            THEN call.out = Unknown
            ELSE /\ call.out # Unknown
                 /\ HasTime(call.in[first])
                 /\ call.out = Trim(AfterEquals(call.in[first]))

\* C14 amended: the first line that holds the marker, an = after it and,
\* after that = and whitespace only, a character that is not a line
\* terminator decides: the result is the text after that =, cut at the first
\* line terminator that follows its first character that is not whitespace,
\* and trimmed; later lines never matter, and the result is 'Unknown' when no
\* line has that form.
C14_FirstMatchingLineDecides ==
    call.fn = "parsePrintTime" =>
        LET first == FirstLine(call.in, HasTime)
        IN  IF first = 0
            THEN call.out = Unknown
            ELSE call.out = Trim(TimeText(call.in[first]))

\* C14 witness: the first marker line has nothing but a carriage return after
\* its =, the second one has a time: the second one decides.
C14_Witness ==
    /\ call.fn = "parsePrintTime"
    /\ Len(call.in) = 2
    /\ call.in[1] = <<Marker, "=", "\r">>
    /\ HasTime(call.in[2])
    /\ call.out = <<"3h", " ", "12m">>

\* C16: the answer of a submit request depends on the slot as it was when the
\* job started only: a job whose output was produced, read and deleted
\* succeeds and reports the filename of the mesh that was staged for it,
\* whatever was uploaded or expired while its engine ran.
C16_AnswerFromStagedMesh ==
    (Answered /\ resp.outputExisted /\ ~DeletionFailed) =>
        /\ resp.status = 200
        /\ resp.data.filename = resp.mesh

\* C17: the engine of every job was invoked with a nozzle diameter that is a
\* number in [0.2, 1.0] and a fill density that is a number in [0, 100].
C17_EngineGetsValidatedNumbers ==
    \A j \in 1..Len(jobs) :
        LET args == jobs[j].prusaArgs
            nozzle == args[2]
            fill == args[16]
        IN  /\ args[1] = Text("--nozzle-diameter")
            /\ nozzle.t = "number" /\ nozzle.n.kind = "fin"
            /\ nozzle.n.v >= 200 /\ nozzle.n.v <= 1000
            /\ args[15] = Text("--fill-density")
            /\ fill.t = "number" /\ fill.n.kind = "fin"
            /\ fill.n.v >= 0 /\ fill.n.v <= 100000

\* how many engines are running
Running(js) == Cardinality({j \in 1..Len(js) : js[j].engine = "running"})

\* C18: a job goes from staged to running to answered, once: the engine is
\* invoked in the step that has written the input file, only that step starts
\* an engine, the output is checked and the response sent only for a job whose
\* engine has returned, the job is gone with its response, and a request that
\* never reached the engine answers without one.
C18_SingleShotInOrder ==
    [][/\ resp'.req = "stage" =>
              /\ Len(jobs') = Len(jobs) + 1
              /\ SubSeq(jobs', 1, Len(jobs)) = jobs
              /\ jobs'[Len(jobs')].engine = "running"
              /\ jobs'[Len(jobs')].tempInputFile = resp'.inPath
              /\ existsSync(fs', resp'.inPath)
              /\ fs'[resp'.inPath] = uploadedFile[1].buffer
              /\ resp'.status = 0
       /\ resp'.req # "stage" =>
              /\ Len(jobs') <= Len(jobs)
              /\ Running(jobs') <= Running(jobs)
       /\ Len(jobs') < Len(jobs) => (resp'.req = "submit" /\ resp'.engine # "")
       /\ (resp'.req = "submit" /\ resp'.engine # "") =>
              /\ resp'.status \in {200, 500}
              /\ \E j \in 1..Len(jobs) :
                    /\ jobs[j].engine # "running"
                    /\ jobs[j].engine = resp'.engine
                    /\ jobs[j].tempOutputFile = resp'.outPath
                    /\ Len(jobs') = Len(jobs) - 1
                    /\ \A k \in 1..Len(jobs') :
                          jobs'[k] = IF k < j THEN jobs[k] ELSE jobs[k + 1]
       /\ (resp'.req = "submit" /\ resp'.engine = "") =>
              /\ resp'.status \in {400, 500, 503}
              /\ jobs' = jobs
      ]_vars

\* C18 witness: a job was staged, its engine ran and exited, its output was
\* read, its files are gone and its one response is the 200.
C18_Witness ==
    /\ Answered
    /\ resp.engine = "exit0"
    /\ resp.outputExisted
    /\ resp.status = 200
    /\ jobs = <<>>
    /\ fs = <<>>

\* C19: while a request waits for its engine, a dimensions upload can run to
\* its response, store its mesh in the slot and leave the waiting requests as
\* they are, and a submit request can start and either answer or suspend at
\* an engine of its own; stated for as long as the request budget lasts.
C19_OthersProceed ==
    ((\E j \in 1..Len(jobs) : jobs[j].engine = "running") /\ used < MaxRequests) =>
        /\ \A file \in Meshes :
              ENABLED (/\ Dimensions(file)
                       /\ resp'.status = 200
                       /\ uploadedFile'[1].filename = file.originalname
                       /\ uploadedFile'[1].buffer = file.buffer
                       /\ jobs' = jobs)
        /\ \A body \in WaitingBodies :
              ENABLED (/\ SubmitStart(body, TRUE, FALSE)
                       /\ resp'.req \in {"submit", "stage"}
                       /\ SubSeq(jobs', 1, Len(jobs)) = jobs)

\* C19 witness: a submit request got its 200 while another one is still
\* waiting for its engine.
C19_Witness ==
    /\ Answered
    /\ resp.status = 200
    /\ Len(jobs) = 1
    /\ jobs[1].engine = "running"
====
